---- MODULE Spec2Model ----
(***************************************************************************)
(* Model of process_schwab_json (converter_schwab.py): classification of   *)
(* the Schwab transaction log into keyed stores and collections, sale      *)
(* attribution, the count check, split reconciliation of RSU and ESPP      *)
(* lots, aggregation with placeholder rows, and the hand-off to the        *)
(* report writer.                                                          *)
(*                                                                         *)
(* Numbers the program holds as Python floats are exact rationals          *)
(* [n, d] here; a date is <<year, month, day>>; a date string in the       *)
(* "%m/%d/%Y" layout is <<month, day, year>>; a string of digits is the    *)
(* sequence of its digits.                                                 *)
(***************************************************************************)
EXTENDS Integers, Sequences, FiniteSets, TLC

MaxLog == 4
MaxSplits == 2

(***************************************************************************)
(* Arithmetic and parsing                                                  *)
(***************************************************************************)
RECURSIVE GCD(_, _)
GCD(a, b) == IF b = 0 THEN a ELSE GCD(b, a % b)

Norm(n, d) == LET g == GCD(n, d) IN [n |-> n \div g, d |-> d \div g]

\* float(x) of a whole number
float(x) == [n |-> x, d |-> 1]

\* a * b on floats
Mul(a, b) == Norm(a.n * b.n, a.d * b.d)

\* a / b on floats (b is never zero: split ratios are positive)
Div(a, b) == Norm(a.n * b.d, a.d * b.n)

\* sold < quantity: an int against a float
IntLess(i, f) == i * f.d < f.n

\* int(s) of a string of decimal digits
RECURSIVE int(_)
int(s) == IF s = <<>> THEN 0 ELSE 10 * int(SubSeq(s, 1, Len(s) - 1)) + s[Len(s)]

\* datetime.strptime(s, "%m/%d/%Y").date()
strptime(s) == <<s[3], s[1], s[2]>>

\* a >= b on dates
DateGE(a, b) ==
    \/ a[1] > b[1]
    \/ a[1] = b[1] /\ a[2] > b[2]
    \/ a[1] = b[1] /\ a[2] = b[2] /\ a[3] >= b[3]

NaT == <<0, 0, 0>>
NaN == [n |-> 0, d |-> 0]
NoDateString == <<0, 0, 0>>

(***************************************************************************)
(* Raw transactions of the JSON export                                     *)
(***************************************************************************)
NoTransaction ==
    [Action |-> "", Description |-> "", Date |-> NoDateString, AwardId |-> "",
     Quantity |-> 0, FairMarketValue |-> 0, PurchasePrice |-> 0, Amount |-> 0,
     TransactionDetails |-> <<>>]

Transaction(action, description, date) ==
    [NoTransaction EXCEPT !.Action = action, !.Description = description, !.Date = date]

RSDetail(vest, grant, shares) ==
    [Type |-> "RS", VestDate |-> vest, GrantId |-> grant,
     PurchaseDate |-> NoDateString, Shares |-> shares]

ESPPDetail(purchase, shares) ==
    [Type |-> "ESPP", VestDate |-> NoDateString, GrantId |-> "",
     PurchaseDate |-> purchase, Shares |-> shares]

OtherDetail(shares) ==
    [Type |-> "Div Reinv", VestDate |-> NoDateString, GrantId |-> "",
     PurchaseDate |-> NoDateString, Shares |-> shares]

RSDeposit(date, award, qty, fmv) ==
    [Transaction("Deposit", "RS", date) EXCEPT
        !.AwardId = award, !.Quantity = qty, !.FairMarketValue = fmv]

RSLapse(date, award, qty) ==
    [Transaction("Lapse", "Restricted Stock Lapse", date) EXCEPT
        !.AwardId = award, !.Quantity = qty]

ESPPDeposit(date, qty, price, fmv) ==
    [Transaction("Deposit", "ESPP", date) EXCEPT
        !.Quantity = qty, !.PurchasePrice = price, !.FairMarketValue = fmv]

Sale(date, tds) ==
    [Transaction("Sale", "Share Sale", date) EXCEPT
        !.Quantity = 1, !.TransactionDetails = tds]

Cash(action, description, date, amount) ==
    [Transaction(action, description, date) EXCEPT !.Amount = amount]

\* The records a log is drawn from.  Two RS deposits and two lapses share the
\* key (2021, 1, "g1") with different days and payloads, two ESPP deposits
\* share a purchase date, and the sales reference lots by one or two details.
DepositTransactions ==
    { RSDeposit(<<1, 10, 2021>>, "g1", 100, 50),
      RSDeposit(<<1, 20, 2021>>, "g1", 3, 7),
      RSDeposit(<<3, 5, 2021>>, "g2", 2, 5),
      RSLapse(<<1, 9, 2021>>, "g1", 500),
      RSLapse(<<1, 25, 2021>>, "g1", 9),
      RSLapse(<<3, 5, 2021>>, "g2", 4),
      ESPPDeposit(<<1, 20, 2021>>, 2, 4, 5),
      ESPPDeposit(<<1, 20, 2021>>, 3, 4, 6) }

SaleTransactions ==
    { Sale(<<4, 1, 2021>>, << RSDetail(<<1, 10, 2021>>, "g1", <<4, 0>>) >>),
      Sale(<<4, 2, 2021>>, << ESPPDetail(<<1, 20, 2021>>, <<2>>) >>),
      Sale(<<4, 3, 2021>>, << RSDetail(<<1, 15, 2021>>, "g1", <<6, 0>>),
                              ESPPDetail(<<1, 20, 2021>>, <<1>>) >>),
      Sale(<<4, 4, 2021>>, << OtherDetail(<<1>>),
                              RSDetail(<<3, 5, 2021>>, "g2", <<2>>) >>) }

CashTransactions ==
    { Cash("Dividend", "Credit", <<2, 1, 2021>>, 3),
      Cash("Tax Withholding", "Debit", <<2, 1, 2021>>, 1),
      Cash("Tax Reversal", "Credit", <<2, 2, 2021>>, 1),
      Cash("Wire Transfer", "Cash Disbursement", <<5, 1, 2021>>, 9),
      Cash("Journal", "Credit", <<5, 2, 2021>>, 2) }

Transactions == DepositTransactions \cup SaleTransactions \cup CashTransactions

\* Rows of stock_splits.xlsx; the first one falls on the date of a lot.
\* Ratios are positive (a ratio of 0 would make the divisions raise).
StockSplitRows ==
    { [date |-> <<2021, 1, 20>>, shares_after_split |-> 2],
      [date |-> <<2021, 6, 1>>, shares_after_split |-> 4] }

RECURSIVE SeqsUpTo(_, _)
SeqsUpTo(S, k) ==
    IF k = 0 THEN { <<>> }
    ELSE LET shorter == SeqsUpTo(S, k - 1)
         IN shorter \cup { Append(s, x) : s \in shorter, x \in S }

StockSplitTables == SeqsUpTo(StockSplitRows, MaxSplits)

(***************************************************************************)
(* Row types of pyfifotax.data_structures_dataframe, by the fields the     *)
(* converter reads and writes.  raw is the transaction a row was built     *)
(* from; the converter never reads it.                                     *)
(***************************************************************************)
RSURow_from_schwab_deposit_json(tx) ==
    [date |-> strptime(tx.Date), gross_quantity |-> NaN,
     net_quantity |-> float(tx.Quantity),
     fair_market_value |-> float(tx.FairMarketValue), sold |-> 0, raw |-> tx]

RSURow_from_schwab_lapse_json(tx) ==
    [date |-> strptime(tx.Date), gross_quantity |-> float(tx.Quantity),
     net_quantity |-> NaN, fair_market_value |-> NaN, sold |-> 0, raw |-> tx]

ESPPRow_from_schwab_json(tx) ==
    [date |-> strptime(tx.Date), quantity |-> float(tx.Quantity),
     buy_price |-> float(tx.PurchasePrice),
     fair_market_value |-> float(tx.FairMarketValue), sold |-> 0, raw |-> tx]

DividendRow_from_schwab_json(tx) ==
    [date |-> strptime(tx.Date), amount |-> tx.Amount, tax_withholding |-> 0]

TaxWithholdingRow_to_dividend_row(tx) ==
    [date |-> strptime(tx.Date), amount |-> 0, tax_withholding |-> tx.Amount]

TaxReversalRow_to_dividend_row(tx) ==
    [date |-> strptime(tx.Date), amount |-> 0, tax_withholding |-> 0 - tx.Amount]

SellOrderRow_from_schwab_json(tx) ==
    [date |-> strptime(tx.Date), quantity |-> float(tx.Quantity), raw |-> tx]

CurrencyConversionRow_from_schwab_json(tx) ==
    [date |-> strptime(tx.Date), source_amount |-> tx.Amount]

MoneyTransferRow_from_schwab_json(tx) ==
    [date |-> strptime(tx.Date), amount |-> tx.Amount]

\* X.empty_dict(): one row of the type's columns with empty values
RSURow_empty_dict ==
    [date |-> NaT, gross_quantity |-> NaN, net_quantity |-> NaN,
     fair_market_value |-> NaN, sold |-> -1, raw |-> NoTransaction]

ESPPRow_empty_dict ==
    [date |-> NaT, quantity |-> NaN, buy_price |-> NaN,
     fair_market_value |-> NaN, sold |-> -1, raw |-> NoTransaction]

DividendRow_empty_dict == [date |-> NaT, amount |-> -1, tax_withholding |-> -1]

BuyOrderRow_empty_dict == [date |-> NaT, quantity |-> NaN]

SellOrderRow_empty_dict == [date |-> NaT, quantity |-> NaN, raw |-> NoTransaction]

CurrencyConversionRow_empty_dict == [date |-> NaT, source_amount |-> -1]

MoneyTransferRow_empty_dict == [date |-> NaT, amount |-> -1]

(***************************************************************************)
(* State of process_schwab_json                                            *)
(***************************************************************************)
VARIABLES
    pc,                            \* position in process_schwab_json
    error,                         \* the exception that ended the run, or "none"
    forex_transfer_as_exchange,    \* the caller's mode flag
    n,                             \* transactions of the log read so far
    e,                             \* the transaction read last
    key_bound,                     \* whether the local `key` has been assigned
    schwab_rsu_events,
    schwab_rsu_deposit_events,     \* dict in insertion order: <<[key, val], ...>>
    schwab_rsu_lapse_events,       \* dict in insertion order
    schwab_espp_events,
    schwab_espp_deposit_events,    \* dict in insertion order
    schwab_dividend_events,
    schwab_buy_events,
    schwab_sell_events,
    schwab_wire_events,
    schwab_money_transfer_events,
    df_stock_splits,               \* rows of the split table, in file order
    split_factor,                  \* the factor computed for the lot handled last
    dfs,                           \* the seven collections handed to the writer
    sheets                         \* names of the sheets written

stores == <<schwab_rsu_deposit_events, schwab_rsu_lapse_events,
            schwab_espp_deposit_events>>

emitted == <<schwab_rsu_events, schwab_espp_events>>

cash == <<schwab_dividend_events, schwab_buy_events, schwab_wire_events,
          schwab_money_transfer_events>>

late == <<df_stock_splits, split_factor, dfs, sheets>>

vars == <<pc, error, forex_transfer_as_exchange, n, e, key_bound, stores,
          emitted, cash, schwab_sell_events, late>>

NoFrames ==
    [rsu |-> <<>>, espp |-> <<>>, dividends |-> <<>>, buy_orders |-> <<>>,
     sell_orders |-> <<>>, currency_conversions |-> <<>>, money_transfers |-> <<>>]

Init ==
    /\ pc = "classify"
    /\ error = "none"
    /\ forex_transfer_as_exchange \in BOOLEAN
    /\ n = 0
    /\ e = NoTransaction
    /\ key_bound = FALSE
    /\ schwab_rsu_events = <<>>
    /\ schwab_rsu_deposit_events = <<>>
    /\ schwab_rsu_lapse_events = <<>>
    /\ schwab_espp_events = <<>>
    /\ schwab_espp_deposit_events = <<>>
    /\ schwab_dividend_events = <<>>
    /\ schwab_buy_events = << BuyOrderRow_empty_dict >>
    /\ schwab_sell_events = <<>>
    /\ schwab_wire_events = <<>>
    /\ schwab_money_transfer_events = <<>>
    /\ df_stock_splits = <<>>
    /\ split_factor = float(1)
    /\ dfs = NoFrames
    /\ sheets = <<>>

(***************************************************************************)
(* Dictionaries                                                            *)
(***************************************************************************)
\* key in d
In(key, d) == \E i \in DOMAIN d : d[i].key = key

\* d[key]
Get(d, key) == d[CHOOSE i \in DOMAIN d : d[i].key = key].val

\* d[key] = val, for a key not in d
Put(d, key, val) == Append(d, [key |-> key, val |-> val])

\* AddSold with = written for +=
AddSold_Assigned(d, key, shares) ==
    [i \in DOMAIN d |->
        IF d[i].key = key
        THEN [d[i] EXCEPT !.val.sold = shares]
        ELSE d[i]]

\* d[key].sold += shares
AddSold(d, key, shares) ==
    [i \in DOMAIN d |->
        IF d[i].key = key
        THEN [d[i] EXCEPT !.val.sold = @ + shares]
        ELSE d[i]]

\* (date.year, date.month, award_id)
GrantKey(date, award_id) == <<date[1], date[2], award_id>>

(***************************************************************************)
(* Classification of one transaction (the body of the loop over            *)
(* d["Transactions"])                                                      *)
(***************************************************************************)
Is(tx, action, description) == tx.Action = action /\ tx.Description = description

\* the loop takes the next transaction of the log
Read(tx) ==
    /\ pc = "classify"
    /\ n < MaxLog
    /\ n' = n + 1
    /\ e' = tx

\* raise: the run ends with the exception
Raise(kind) ==
    /\ pc' = "failed"
    /\ error' = kind

\* ClassifyESPPDeposit without the test for a taken key
ClassifyESPPDeposit_Unchecked(tx) ==
    /\ Read(tx)
    /\ Is(tx, "Deposit", "ESPP")
    /\ LET espp == ESPPRow_from_schwab_json(tx)
       IN schwab_espp_deposit_events' = Put(schwab_espp_deposit_events, espp.date, espp)
    /\ UNCHANGED <<pc, error, forex_transfer_as_exchange, key_bound,
                   schwab_rsu_deposit_events, schwab_rsu_lapse_events, emitted, cash,
                   schwab_sell_events, late>>

ClassifyESPPDeposit(tx) ==
    /\ Read(tx)
    /\ Is(tx, "Deposit", "ESPP")
    /\ LET espp == ESPPRow_from_schwab_json(tx)
       IN IF In(espp.date, schwab_espp_deposit_events)
          THEN /\ Raise("DuplicateKey")
               /\ UNCHANGED schwab_espp_deposit_events
          ELSE /\ schwab_espp_deposit_events' =
                      Put(schwab_espp_deposit_events, espp.date, espp)
               /\ UNCHANGED <<pc, error>>
    /\ UNCHANGED <<forex_transfer_as_exchange, key_bound, schwab_rsu_deposit_events,
                   schwab_rsu_lapse_events, emitted, cash, schwab_sell_events, late>>

ClassifyRSULapse(tx) ==
    /\ Read(tx)
    /\ Is(tx, "Lapse", "Restricted Stock Lapse")
    /\ LET tmp == RSURow_from_schwab_lapse_json(tx)
           key == GrantKey(tmp.date, tx.AwardId)
       IN IF In(key, schwab_rsu_lapse_events)
          THEN /\ Raise("DuplicateKey")
               /\ UNCHANGED schwab_rsu_lapse_events
          ELSE /\ schwab_rsu_lapse_events' = Put(schwab_rsu_lapse_events, key, tmp)
               /\ UNCHANGED <<pc, error>>
    /\ key_bound' = TRUE
    /\ UNCHANGED <<forex_transfer_as_exchange, schwab_rsu_deposit_events,
                   schwab_espp_deposit_events, emitted, cash, schwab_sell_events, late>>

ClassifyRSUDeposit(tx) ==
    /\ Read(tx)
    /\ Is(tx, "Deposit", "RS")
    /\ LET tmp == RSURow_from_schwab_deposit_json(tx)
           key == GrantKey(tmp.date, tx.AwardId)
       IN IF In(key, schwab_rsu_deposit_events)
          THEN /\ Raise("DuplicateKey")
               /\ UNCHANGED schwab_rsu_deposit_events
          ELSE /\ schwab_rsu_deposit_events' = Put(schwab_rsu_deposit_events, key, tmp)
               /\ UNCHANGED <<pc, error>>
    /\ key_bound' = TRUE
    /\ UNCHANGED <<forex_transfer_as_exchange, schwab_rsu_lapse_events,
                   schwab_espp_deposit_events, emitted, cash, schwab_sell_events, late>>

ClassifyDividend(tx) ==
    /\ Read(tx)
    /\ Is(tx, "Dividend", "Credit")
    /\ schwab_dividend_events' =
           Append(schwab_dividend_events, DividendRow_from_schwab_json(tx))
    /\ UNCHANGED <<pc, error, forex_transfer_as_exchange, key_bound, stores, emitted,
                   schwab_buy_events, schwab_wire_events, schwab_money_transfer_events,
                   schwab_sell_events, late>>

\* The loop over e["TransactionDetails"], from the state st = [rsu, espp,
\* key_bound, error] of the two deposit stores and the local `key`.  The
\* message of the ESPP error formats `key`, which only the RSU branches
\* assign: with `key` unassigned, building the message raises
\* UnboundLocalError in place of the RuntimeError.
RECURSIVE SaleAttribution(_, _)
SaleAttribution(tds, st) ==
    IF tds = <<>> \/ st.error # "none" THEN st
    ELSE LET details == Head(tds) IN
         IF details.Type = "RS"
         THEN LET date == strptime(details.VestDate)
                  key == GrantKey(date, details.GrantId)
              IN IF ~In(key, st.rsu)
                 THEN [st EXCEPT !.key_bound = TRUE, !.error = "MissingLot"]
                 ELSE SaleAttribution(Tail(tds),
                          [st EXCEPT !.key_bound = TRUE,
                                     !.rsu = AddSold(@, key, int(details.Shares))])
         ELSE IF details.Type = "ESPP"
         THEN LET date == strptime(details.PurchaseDate)
              IN IF ~In(date, st.espp)
                 THEN [st EXCEPT !.error = IF st.key_bound THEN "MissingLot"
                                           ELSE "UnboundLocalError"]
                 ELSE SaleAttribution(Tail(tds),
                          [st EXCEPT !.espp = AddSold(@, date, int(details.Shares))])
         ELSE SaleAttribution(Tail(tds), st)

ClassifySale(tx) ==
    /\ Read(tx)
    /\ Is(tx, "Sale", "Share Sale")
    /\ schwab_sell_events' = Append(schwab_sell_events, SellOrderRow_from_schwab_json(tx))
    /\ LET st == SaleAttribution(tx.TransactionDetails,
                     [rsu |-> schwab_rsu_deposit_events,
                      espp |-> schwab_espp_deposit_events,
                      key_bound |-> key_bound, error |-> "none"])
       IN /\ schwab_rsu_deposit_events' = st.rsu
          /\ schwab_espp_deposit_events' = st.espp
          /\ key_bound' = st.key_bound
          /\ IF st.error # "none" THEN Raise(st.error) ELSE UNCHANGED <<pc, error>>
    /\ UNCHANGED <<forex_transfer_as_exchange, schwab_rsu_lapse_events, emitted, cash,
                   late>>

ClassifyWireTransfer(tx) ==
    /\ Read(tx)
    /\ Is(tx, "Wire Transfer", "Cash Disbursement")
    /\ IF forex_transfer_as_exchange
       THEN /\ schwab_wire_events' =
                   Append(schwab_wire_events, CurrencyConversionRow_from_schwab_json(tx))
            /\ UNCHANGED schwab_money_transfer_events
       ELSE /\ schwab_money_transfer_events' =
                   Append(schwab_money_transfer_events, MoneyTransferRow_from_schwab_json(tx))
            /\ UNCHANGED schwab_wire_events
    /\ UNCHANGED <<pc, error, forex_transfer_as_exchange, key_bound, stores, emitted,
                   schwab_dividend_events, schwab_buy_events, schwab_sell_events, late>>

ClassifyTaxWithholding(tx) ==
    /\ Read(tx)
    /\ Is(tx, "Tax Withholding", "Debit")
    /\ schwab_dividend_events' =
           Append(schwab_dividend_events, TaxWithholdingRow_to_dividend_row(tx))
    /\ UNCHANGED <<pc, error, forex_transfer_as_exchange, key_bound, stores, emitted,
                   schwab_buy_events, schwab_wire_events, schwab_money_transfer_events,
                   schwab_sell_events, late>>

ClassifyTaxReversal(tx) ==
    /\ Read(tx)
    /\ Is(tx, "Tax Reversal", "Credit")
    /\ schwab_dividend_events' =
           Append(schwab_dividend_events, TaxReversalRow_to_dividend_row(tx))
    /\ UNCHANGED <<pc, error, forex_transfer_as_exchange, key_bound, stores, emitted,
                   schwab_buy_events, schwab_wire_events, schwab_money_transfer_events,
                   schwab_sell_events, late>>

Recognised ==
    { <<"Deposit", "ESPP">>, <<"Lapse", "Restricted Stock Lapse">>, <<"Deposit", "RS">>,
      <<"Dividend", "Credit">>, <<"Sale", "Share Sale">>,
      <<"Wire Transfer", "Cash Disbursement">>, <<"Tax Withholding", "Debit">>,
      <<"Tax Reversal", "Credit">> }

\* else: pass
ClassifyIgnored(tx) ==
    /\ Read(tx)
    /\ <<tx.Action, tx.Description>> \notin Recognised
    /\ UNCHANGED <<pc, error, forex_transfer_as_exchange, key_bound, stores, emitted,
                   cash, schwab_sell_events, late>>

(***************************************************************************)
(* After the loop: the count check and the split table                     *)
(***************************************************************************)
\* CheckCounts without the comparison
CheckCounts_Skipped ==
    /\ pc = "classify"
    /\ pc' = "load"
    /\ UNCHANGED <<error, forex_transfer_as_exchange, n, e, key_bound, stores, emitted,
                   cash, schwab_sell_events, late>>

\* CheckCounts with < written for !=
CheckCounts_FewerLapses ==
    /\ pc = "classify"
    /\ IF Len(schwab_rsu_lapse_events) < Len(schwab_rsu_deposit_events)
       THEN Raise("StructuralMismatch")
       ELSE pc' = "load" /\ UNCHANGED error
    /\ UNCHANGED <<forex_transfer_as_exchange, n, e, key_bound, stores, emitted, cash,
                   schwab_sell_events, late>>

\* the log is exhausted; len(lapses) != len(deposits) raises
CheckCounts ==
    /\ pc = "classify"
    /\ IF Len(schwab_rsu_lapse_events) # Len(schwab_rsu_deposit_events)
       THEN Raise("StructuralMismatch")
       ELSE pc' = "load" /\ UNCHANGED error
    /\ UNCHANGED <<forex_transfer_as_exchange, n, e, key_bound, stores, emitted, cash,
                   schwab_sell_events, late>>

\* pd.read_excel: the rows of the file, in the order of the file
LoadStockSplits ==
    /\ pc = "load"
    /\ \E table \in StockSplitTables : df_stock_splits' = table
    /\ pc' = "rsu"
    /\ UNCHANGED <<error, forex_transfer_as_exchange, n, e, key_bound, stores, emitted,
                   cash, schwab_sell_events, split_factor, dfs, sheets>>

(***************************************************************************)
(* Split reconciliation                                                    *)
(***************************************************************************)
\* SplitScan with > written for >=: a split of the lot's date is counted
RECURSIVE SplitScan_Strict(_, _, _)
SplitScan_Strict(date, rows, factor) ==
    IF rows = <<>> THEN factor
    ELSE IF ~DateGE(Head(rows).date, date) THEN factor
    ELSE SplitScan_Strict(date, Tail(rows),
                          Mul(factor, float(Head(rows).shares_after_split)))

\* for _, row in df_stock_splits.iterrows(): break at the first row the lot
\* is not older than, multiply the factor by the ratio of every row before it
RECURSIVE SplitScan(_, _, _)
SplitScan(date, rows, factor) ==
    IF rows = <<>> THEN factor
    ELSE IF DateGE(date, Head(rows).date) THEN factor
    ELSE SplitScan(date, Tail(rows),
                   Mul(factor, float(Head(rows).shares_after_split)))

SplitFactor(date, rows) == SplitScan(date, rows, float(1))

\* AdjustRSU with the net quantity multiplied by the factor
AdjustRSU_Multiplied(rsu, rsu_lapse, factor) ==
    LET undone == IF IntLess(rsu.sold, rsu.net_quantity)
                  THEN [rsu EXCEPT !.fair_market_value = Mul(@, factor),
                                   !.net_quantity = Mul(@, factor)]
                  ELSE rsu
    IN [undone EXCEPT !.gross_quantity = Div(rsu_lapse.gross_quantity, factor)]

\* the body of the RSU loop after the lookup of the lapse
AdjustRSU(rsu, rsu_lapse, factor) ==
    LET undone == IF IntLess(rsu.sold, rsu.net_quantity)
                  THEN [rsu EXCEPT !.fair_market_value = Mul(@, factor),
                                   !.net_quantity = Div(@, factor)]
                  ELSE rsu
    IN [undone EXCEPT !.gross_quantity = Div(rsu_lapse.gross_quantity, factor)]

\* AdjustESPP with <= written for <
AdjustESPP_SoldOrEqual(espp, factor) ==
    IF espp.sold * espp.quantity.d <= espp.quantity.n
    THEN [espp EXCEPT !.fair_market_value = Mul(@, factor),
                      !.buy_price = Mul(@, factor),
                      !.quantity = Div(@, factor)]
    ELSE espp

\* the body of the ESPP loop
AdjustESPP(espp, factor) ==
    IF IntLess(espp.sold, espp.quantity)
    THEN [espp EXCEPT !.fair_market_value = Mul(@, factor),
                      !.buy_price = Mul(@, factor),
                      !.quantity = Div(@, factor)]
    ELSE espp

\* one iteration of the loop over schwab_rsu_deposit_events.items(); the
\* lots before position i have been appended to schwab_rsu_events
ReconcileRSU ==
    /\ pc = "rsu"
    /\ Len(schwab_rsu_lapse_events) > 0
    /\ LET i == Len(schwab_rsu_events) + 1 IN
       /\ i <= Len(schwab_rsu_deposit_events)
       /\ LET key == schwab_rsu_deposit_events[i].key
              rsu == schwab_rsu_deposit_events[i].val
          IN IF ~In(key, schwab_rsu_lapse_events)
             THEN /\ Raise("UnmatchedDeposit")
                  /\ UNCHANGED <<schwab_rsu_deposit_events, schwab_rsu_events,
                                 split_factor>>
             ELSE LET factor == SplitFactor(rsu.date, df_stock_splits)
                      row == AdjustRSU(rsu, Get(schwab_rsu_lapse_events, key), factor)
                  IN /\ split_factor' = factor
                     /\ schwab_rsu_deposit_events' =
                            [schwab_rsu_deposit_events EXCEPT ![i].val = row]
                     /\ schwab_rsu_events' = Append(schwab_rsu_events, row)
                     /\ UNCHANGED <<pc, error>>
    /\ key_bound' = TRUE
    /\ UNCHANGED <<forex_transfer_as_exchange, n, e, schwab_rsu_lapse_events,
                   schwab_espp_deposit_events, schwab_espp_events, cash,
                   schwab_sell_events, df_stock_splits, dfs, sheets>>

\* the RSU loop is over, or is skipped because there is no lapse event
EndRSU ==
    /\ pc = "rsu"
    /\ \/ Len(schwab_rsu_lapse_events) = 0
       \/ Len(schwab_rsu_events) = Len(schwab_rsu_deposit_events)
    /\ pc' = "espp"
    /\ UNCHANGED <<error, forex_transfer_as_exchange, n, e, key_bound, stores, emitted,
                   cash, schwab_sell_events, late>>

\* ReconcileESPP with the lot adjusted a second time before it is emitted
ReconcileESPP_Twice ==
    /\ pc = "espp"
    /\ LET i == Len(schwab_espp_events) + 1 IN
       /\ i <= Len(schwab_espp_deposit_events)
       /\ LET espp == schwab_espp_deposit_events[i].val
              factor == SplitFactor(espp.date, df_stock_splits)
              row == AdjustESPP(AdjustESPP(espp, factor), factor)
          IN /\ split_factor' = factor
             /\ schwab_espp_deposit_events' =
                    [schwab_espp_deposit_events EXCEPT ![i].val = row]
             /\ schwab_espp_events' = Append(schwab_espp_events, row)
    /\ key_bound' = TRUE
    /\ UNCHANGED <<pc, error, forex_transfer_as_exchange, n, e,
                   schwab_rsu_deposit_events, schwab_rsu_lapse_events,
                   schwab_rsu_events, cash, schwab_sell_events, df_stock_splits, dfs,
                   sheets>>

\* one iteration of the loop over schwab_espp_deposit_events.items()
ReconcileESPP ==
    /\ pc = "espp"
    /\ LET i == Len(schwab_espp_events) + 1 IN
       /\ i <= Len(schwab_espp_deposit_events)
       /\ LET espp == schwab_espp_deposit_events[i].val
              factor == SplitFactor(espp.date, df_stock_splits)
              row == AdjustESPP(espp, factor)
          IN /\ split_factor' = factor
             /\ schwab_espp_deposit_events' =
                    [schwab_espp_deposit_events EXCEPT ![i].val = row]
             /\ schwab_espp_events' = Append(schwab_espp_events, row)
    /\ key_bound' = TRUE
    /\ UNCHANGED <<pc, error, forex_transfer_as_exchange, n, e,
                   schwab_rsu_deposit_events, schwab_rsu_lapse_events,
                   schwab_rsu_events, cash, schwab_sell_events, df_stock_splits, dfs,
                   sheets>>

EndESPP ==
    /\ pc = "espp"
    /\ Len(schwab_espp_events) = Len(schwab_espp_deposit_events)
    /\ pc' = "aggregate"
    /\ UNCHANGED <<error, forex_transfer_as_exchange, n, e, key_bound, stores, emitted,
                   cash, schwab_sell_events, late>>

(***************************************************************************)
(* Aggregation and the hand-off to the report writer                       *)
(***************************************************************************)
\* if len(events) == 0: events.append(placeholder)
OrEmptyDict(events, placeholder) ==
    IF Len(events) = 0 THEN << placeholder >> ELSE events

\* the placeholder appends and the dict of frames
Aggregate ==
    /\ pc = "aggregate"
    /\ schwab_espp_events' = OrEmptyDict(schwab_espp_events, ESPPRow_empty_dict)
    /\ schwab_dividend_events' =
           OrEmptyDict(schwab_dividend_events, DividendRow_empty_dict)
    /\ schwab_sell_events' = OrEmptyDict(schwab_sell_events, SellOrderRow_empty_dict)
    /\ schwab_wire_events' =
           OrEmptyDict(schwab_wire_events, CurrencyConversionRow_empty_dict)
    /\ schwab_money_transfer_events' =
           OrEmptyDict(schwab_money_transfer_events, MoneyTransferRow_empty_dict)
    /\ dfs' = [rsu |-> schwab_rsu_events,
               espp |-> schwab_espp_events',
               dividends |-> schwab_dividend_events',
               buy_orders |-> schwab_buy_events,
               sell_orders |-> schwab_sell_events',
               currency_conversions |-> schwab_wire_events',
               money_transfers |-> schwab_money_transfer_events']
    /\ pc' = "write"
    /\ UNCHANGED <<error, forex_transfer_as_exchange, n, e, key_bound, stores,
                   schwab_rsu_events, schwab_buy_events, df_stock_splits, split_factor,
                   sheets>>

\* rows without the one at position i
Without(rows, i) == SubSeq(rows, 1, i - 1) \o SubSeq(rows, i + 1, Len(rows))

\* The orders sort_values("date") may leave the rows in: ascending by date,
\* rows of one date in any order (the default sort is not stable).
RECURSIVE SortedByDate(_)
SortedByDate(rows) ==
    IF rows = <<>> THEN { <<>> }
    ELSE LET first == { i \in DOMAIN rows :
                          \A j \in DOMAIN rows : DateGE(rows[j].date, rows[i].date) }
         IN UNION { { <<rows[i]>> \o rest : rest \in SortedByDate(Without(rows, i)) }
                    : i \in first }

Categories ==
    << "rsu", "espp", "dividends", "buy_orders", "sell_orders", "currency_conversions",
       "money_transfers" >>

\* The loop over dfs.items().  A frame built from an empty list has no
\* column "date", and sorting it raises KeyError: "rsu" is the first frame
\* and the only one that can be empty.
Write ==
    /\ pc = "write"
    /\ IF Len(dfs.rsu) = 0
       THEN /\ Raise("KeyError")
            /\ UNCHANGED <<dfs, sheets>>
       ELSE /\ \E rsu \in SortedByDate(dfs.rsu),
                  espp \in SortedByDate(dfs.espp),
                  dividends \in SortedByDate(dfs.dividends),
                  buy_orders \in SortedByDate(dfs.buy_orders),
                  sell_orders \in SortedByDate(dfs.sell_orders),
                  currency_conversions \in SortedByDate(dfs.currency_conversions),
                  money_transfers \in SortedByDate(dfs.money_transfers) :
                  dfs' = [rsu |-> rsu, espp |-> espp, dividends |-> dividends,
                          buy_orders |-> buy_orders, sell_orders |-> sell_orders,
                          currency_conversions |-> currency_conversions,
                          money_transfers |-> money_transfers]
            /\ sheets' = Categories
            /\ pc' = "done"
            /\ UNCHANGED error
    /\ UNCHANGED <<forex_transfer_as_exchange, n, e, key_bound, stores, emitted, cash,
                   schwab_sell_events, df_stock_splits, split_factor>>

Next ==
    \/ \E tx \in Transactions :
          \/ ClassifyESPPDeposit(tx)
          \/ ClassifyRSULapse(tx)
          \/ ClassifyRSUDeposit(tx)
          \/ ClassifyDividend(tx)
          \/ ClassifySale(tx)
          \/ ClassifyWireTransfer(tx)
          \/ ClassifyTaxWithholding(tx)
          \/ ClassifyTaxReversal(tx)
          \/ ClassifyIgnored(tx)
    \/ CheckCounts
    \/ LoadStockSplits
    \/ ReconcileRSU
    \/ EndRSU
    \/ ReconcileESPP
    \/ EndESPP
    \/ Aggregate
    \/ Write

Spec == Init /\ [][Next]_vars

(***************************************************************************)
(* Properties                                                              *)
(***************************************************************************)
\* the exceptions raised inside the loop over the log
ClassificationErrors == { "DuplicateKey", "MissingLot", "UnboundLocalError" }

\* every transaction has been classified without an exception
Classified == pc # "classify" /\ error \notin ClassificationErrors

\* the run has come to its end, one way or the other
Ended == pc \in { "failed", "done" }

Keys(d) == { d[i].key : i \in DOMAIN d }

\* what a category's frame must be, given the rows collected for it: the
\* rows themselves when there are any, else the one placeholder row
Expected(events, placeholder) ==
    LET rows == SelectSeq(events, LAMBDA row : row # placeholder)
    IN IF rows = <<>> THEN << placeholder >> ELSE rows

\* C1: the frames handed to the report writer hold, for each of the seven
\* categories, exactly one placeholder row when the category has no events
\* and the events without any placeholder row when it has some.
C1_PlaceholderPerCategory ==
    [][ (pc = "aggregate" /\ pc' = "write") =>
          /\ dfs'.rsu = Expected(schwab_rsu_events, RSURow_empty_dict)
          /\ dfs'.espp = Expected(schwab_espp_events, ESPPRow_empty_dict)
          /\ dfs'.dividends = Expected(schwab_dividend_events, DividendRow_empty_dict)
          /\ dfs'.buy_orders = Expected(schwab_buy_events, BuyOrderRow_empty_dict)
          /\ dfs'.sell_orders = Expected(schwab_sell_events, SellOrderRow_empty_dict)
          /\ dfs'.currency_conversions =
                 Expected(schwab_wire_events, CurrencyConversionRow_empty_dict)
          /\ dfs'.money_transfers =
                 Expected(schwab_money_transfer_events, MoneyTransferRow_empty_dict) ]_vars

\* some RSU deposit key has no lapse event of the same key
UnmatchedDeposit ==
    \E i \in DOMAIN schwab_rsu_deposit_events :
        ~In(schwab_rsu_deposit_events[i].key, schwab_rsu_lapse_events)

\* C2 as stated: a log that leaves a deposit key without a lapse of the same
\* key ends the run with the unmatched-deposit error and without output.
C2_UnmatchedDepositError ==
    (Classified /\ Ended /\ UnmatchedDeposit) =>
        (pc = "failed" /\ error = "UnmatchedDeposit" /\ sheets = <<>>)

\* C2 as amended: such a run fails without output, with the structural-
\* mismatch error when the two stores differ in size and with the unmatched-
\* deposit error when they do not; a run that reaches aggregation has every
\* deposit key in the lapse store.
C2_UnmatchedDepositFails ==
    /\ (Classified /\ Ended /\ UnmatchedDeposit) =>
           /\ pc = "failed"
           /\ sheets = <<>>
           /\ error = IF Len(schwab_rsu_lapse_events) # Len(schwab_rsu_deposit_events)
                      THEN "StructuralMismatch"
                      ELSE "UnmatchedDeposit"
    /\ pc \in { "aggregate", "write", "done" } =>
           Keys(schwab_rsu_deposit_events) \subseteq Keys(schwab_rsu_lapse_events)

\* a deposit without its lapse among stores of equal size: the loop raised
C2_Witness ==
    /\ pc = "failed"
    /\ error = "UnmatchedDeposit"
    /\ Len(schwab_rsu_lapse_events) = Len(schwab_rsu_deposit_events)
    /\ UnmatchedDeposit

\* C6: a run whose deposit and lapse stores differ in size at the end of
\* classification fails with the structural-mismatch error before any lot is
\* reconciled or any frame built; past the check the sizes are equal.
C6_CountMismatchIsFatal ==
    /\ (Classified /\ Len(schwab_rsu_lapse_events) # Len(schwab_rsu_deposit_events)) =>
           /\ pc = "failed"
           /\ error = "StructuralMismatch"
           /\ schwab_rsu_events = <<>>
           /\ schwab_espp_events = <<>>
           /\ dfs = NoFrames
    /\ error = "StructuralMismatch" =>
           Len(schwab_rsu_lapse_events) # Len(schwab_rsu_deposit_events)

C6_Witness ==
    /\ pc = "failed"
    /\ error = "StructuralMismatch"
    /\ Len(schwab_rsu_lapse_events) = 2
    /\ Len(schwab_rsu_deposit_events) = 1

\* a detail of the sale references a lot that is in neither deposit store
ReferencesMissingLot(tx) ==
    \E i \in DOMAIN tx.TransactionDetails :
        LET details == tx.TransactionDetails[i] IN
        \/ /\ details.Type = "RS"
           /\ ~In(GrantKey(strptime(details.VestDate), details.GrantId),
                  schwab_rsu_deposit_events)
        \/ /\ details.Type = "ESPP"
           /\ ~In(strptime(details.PurchaseDate), schwab_espp_deposit_events)

\* C7: the sale read last references a lot that was not in its deposit store
\* when the sale was classified (a sale adds no key, and e is the last
\* transaction read): the run has failed with the missing-lot error.
C7_MissingLotError ==
    (Is(e, "Sale", "Share Sale") /\ ReferencesMissingLot(e)) =>
        (pc = "failed" /\ error = "MissingLot")

\* the split table is ordered by effective date, most recent first
Descending(rows) ==
    \A i, j \in DOMAIN rows : i < j => DateGE(rows[i].date, rows[j].date)

\* the product of the ratios of the rows dated strictly after the date, in
\* whatever order the rows come (1 when there is none)
RECURSIVE ProductOfLaterSplits(_, _)
ProductOfLaterSplits(date, rows) ==
    IF rows = <<>> THEN float(1)
    ELSE LET rest == ProductOfLaterSplits(date, Tail(rows))
         IN IF DateGE(date, Head(rows).date) THEN rest
            ELSE Mul(float(Head(rows).shares_after_split), rest)

\* the lot a reconciliation loop handled last
RSUHandledLast == pc = "rsu" /\ Len(schwab_rsu_events) > 0

ESPPHandledLast == pc = "espp" /\ Len(schwab_espp_events) > 0

\* C3: under a split table in descending date order, the factor computed for
\* a lot is the product of the ratios of the splits dated strictly after the
\* lot, a split of the lot's own date left out.
C3_SplitFactorOfLaterSplits ==
    Descending(df_stock_splits) =>
        /\ RSUHandledLast =>
               split_factor =
                   ProductOfLaterSplits(schwab_rsu_events[Len(schwab_rsu_events)].date,
                                        df_stock_splits)
        /\ ESPPHandledLast =>
               split_factor =
                   ProductOfLaterSplits(schwab_espp_events[Len(schwab_espp_events)].date,
                                        df_stock_splits)

\* an ESPP lot bought on the day of the older split, under both splits
C3_Witness ==
    /\ ESPPHandledLast
    /\ df_stock_splits = << [date |-> <<2021, 6, 1>>, shares_after_split |-> 4],
                            [date |-> <<2021, 1, 20>>, shares_after_split |-> 2] >>
    /\ schwab_espp_events[1].date = <<2021, 1, 20>>
    /\ split_factor = float(4)

\* the broker-supplied values of a lot, from the transaction it was built from
BrokerRSU(row) == RSURow_from_schwab_deposit_json(row.raw)

BrokerESPP(row) == ESPPRow_from_schwab_json(row.raw)

\* the lapse event a reconciled RSU lot was matched with
LapseOf(row) ==
    Get(schwab_rsu_lapse_events, GrantKey(row.date, row.raw.AwardId))

ESPPLots == { i \in DOMAIN schwab_espp_events :
                schwab_espp_events[i] # ESPPRow_empty_dict }

\* C4: a reconciled lot whose final sold count is below the broker's
\* quantity has the quantity divided and the fair market value (for ESPP the
\* buy price too) multiplied by its split factor; an RSU lot has the gross
\* quantity of its lapse divided by the factor.
C4_NotFullySoldIsReversed ==
    /\ \A i \in DOMAIN schwab_rsu_events :
          LET row == schwab_rsu_events[i]
              r == SplitFactor(row.date, df_stock_splits)
          IN IntLess(row.sold, BrokerRSU(row).net_quantity) =>
                /\ row.net_quantity = Div(BrokerRSU(row).net_quantity, r)
                /\ row.fair_market_value = Mul(BrokerRSU(row).fair_market_value, r)
                /\ row.gross_quantity = Div(LapseOf(row).gross_quantity, r)
    /\ \A i \in ESPPLots :
          LET row == schwab_espp_events[i]
              r == SplitFactor(row.date, df_stock_splits)
          IN IntLess(row.sold, BrokerESPP(row).quantity) =>
                /\ row.quantity = Div(BrokerESPP(row).quantity, r)
                /\ row.fair_market_value = Mul(BrokerESPP(row).fair_market_value, r)
                /\ row.buy_price = Mul(BrokerESPP(row).buy_price, r)

\* net 100, value 50, sold 40, one later split of ratio 4, lapse gross 500
C4_Witness ==
    /\ df_stock_splits = << [date |-> <<2021, 6, 1>>, shares_after_split |-> 4] >>
    /\ Len(schwab_rsu_events) = 1
    /\ schwab_rsu_events[1].raw = RSDeposit(<<1, 10, 2021>>, "g1", 100, 50)
    /\ schwab_rsu_events[1].sold = 40
    /\ schwab_rsu_events[1].net_quantity = float(25)
    /\ schwab_rsu_events[1].fair_market_value = float(200)
    /\ schwab_rsu_events[1].gross_quantity = float(125)

\* the sold count equals the quantity
IntEqual(i, f) == i * f.d = f.n

\* C5: a reconciled lot whose final sold count equals the broker's quantity
\* keeps the broker's quantity, fair market value and (ESPP) buy price; an
\* RSU lot still has the gross quantity of its lapse divided by the factor.
C5_FullySoldIsKept ==
    /\ \A i \in DOMAIN schwab_rsu_events :
          LET row == schwab_rsu_events[i]
              r == SplitFactor(row.date, df_stock_splits)
          IN IntEqual(row.sold, BrokerRSU(row).net_quantity) =>
                /\ row.net_quantity = BrokerRSU(row).net_quantity
                /\ row.fair_market_value = BrokerRSU(row).fair_market_value
                /\ row.gross_quantity = Div(LapseOf(row).gross_quantity, r)
    /\ \A i \in ESPPLots :
          LET row == schwab_espp_events[i]
          IN IntEqual(row.sold, BrokerESPP(row).quantity) =>
                /\ row.quantity = BrokerESPP(row).quantity
                /\ row.fair_market_value = BrokerESPP(row).fair_market_value
                /\ row.buy_price = BrokerESPP(row).buy_price

\* a lot of 2 shares sold in full, under one later split of ratio 4
C5_Witness ==
    /\ df_stock_splits = << [date |-> <<2021, 6, 1>>, shares_after_split |-> 4] >>
    /\ Len(schwab_rsu_events) = 1
    /\ schwab_rsu_events[1].raw = RSDeposit(<<3, 5, 2021>>, "g2", 2, 5)
    /\ schwab_rsu_events[1].sold = 2
    /\ schwab_rsu_events[1].net_quantity = float(2)
    /\ schwab_rsu_events[1].fair_market_value = float(5)
    /\ schwab_rsu_events[1].gross_quantity = float(1)

(***************************************************************************)
(* Keyed stores and sale attribution                                       *)
(***************************************************************************)
UniqueKeys(d) == \A i, j \in DOMAIN d : d[i].key = d[j].key => i = j

\* a transaction was classified in this step: it is e'
Classifies == pc = "classify" /\ n' = n + 1

\* the store a deposit or lapse transaction goes to, and its key there
RSUKeyOf(tx) == GrantKey(strptime(tx.Date), tx.AwardId)

\* C8: no store ever holds two events of one key; a transaction whose key is
\* taken in its own store fails the run with the duplicate-key error and
\* leaves the store as it was; a key taken in the other RSU store does not
\* stand in the way of an insert.
C8_KeysAreUnique ==
    /\ [](/\ UniqueKeys(schwab_rsu_deposit_events)
          /\ UniqueKeys(schwab_rsu_lapse_events)
          /\ UniqueKeys(schwab_espp_deposit_events))
    /\ [][ Classifies =>
             /\ Is(e', "Deposit", "RS") =>
                   IF In(RSUKeyOf(e'), schwab_rsu_deposit_events)
                   THEN /\ pc' = "failed" /\ error' = "DuplicateKey"
                        /\ schwab_rsu_deposit_events' = schwab_rsu_deposit_events
                   ELSE /\ pc' = "classify"
                        /\ schwab_rsu_deposit_events' =
                               Append(schwab_rsu_deposit_events,
                                      [key |-> RSUKeyOf(e'),
                                       val |-> RSURow_from_schwab_deposit_json(e')])
             /\ Is(e', "Lapse", "Restricted Stock Lapse") =>
                   IF In(RSUKeyOf(e'), schwab_rsu_lapse_events)
                   THEN /\ pc' = "failed" /\ error' = "DuplicateKey"
                        /\ schwab_rsu_lapse_events' = schwab_rsu_lapse_events
                   ELSE /\ pc' = "classify"
                        /\ schwab_rsu_lapse_events' =
                               Append(schwab_rsu_lapse_events,
                                      [key |-> RSUKeyOf(e'),
                                       val |-> RSURow_from_schwab_lapse_json(e')])
             /\ Is(e', "Deposit", "ESPP") =>
                   IF In(strptime(e'.Date), schwab_espp_deposit_events)
                   THEN /\ pc' = "failed" /\ error' = "DuplicateKey"
                        /\ schwab_espp_deposit_events' = schwab_espp_deposit_events
                   ELSE /\ pc' = "classify"
                        /\ schwab_espp_deposit_events' =
                               Append(schwab_espp_deposit_events,
                                      [key |-> strptime(e'.Date),
                                       val |-> ESPPRow_from_schwab_json(e')]) ]_vars

\* a second deposit of a key, with another day and payload, was refused while
\* the lapse of the same key sits in its own store
C8_Witness ==
    /\ pc = "failed"
    /\ error = "DuplicateKey"
    /\ e = RSDeposit(<<1, 20, 2021>>, "g1", 3, 7)
    /\ Get(schwab_rsu_deposit_events, <<2021, 1, "g1">>).raw =
           RSDeposit(<<1, 10, 2021>>, "g1", 100, 50)
    /\ In(<<2021, 1, "g1">>, schwab_rsu_lapse_events)

\* does the detail reference the RSU lot of the key / the ESPP lot of the date
ReferencesRSU(details, key) ==
    /\ details.Type = "RS"
    /\ GrantKey(strptime(details.VestDate), details.GrantId) = key

ReferencesESPP(details, date) ==
    /\ details.Type = "ESPP"
    /\ strptime(details.PurchaseDate) = date

\* the shares of the details of the sales in rows that satisfy Ref
RECURSIVE SharesOfDetails(_, _, _)
SharesOfDetails(tds, Ref(_, _), lot) ==
    IF tds = <<>> THEN 0
    ELSE (IF Ref(Head(tds), lot) THEN int(Head(tds).Shares) ELSE 0)
         + SharesOfDetails(Tail(tds), Ref, lot)

RECURSIVE SharesSold(_, _, _)
SharesSold(rows, Ref(_, _), lot) ==
    IF rows = <<>> THEN 0
    ELSE SharesOfDetails(Head(rows).raw.TransactionDetails, Ref, lot)
         + SharesSold(Tail(rows), Ref, lot)

\* a store but for the sold counters
SoldCleared(d) == [i \in DOMAIN d |-> [d[i] EXCEPT !.val.sold = 0]]

\* C9: while the log is classified without error, the sold counter of every
\* lot is the sum of the shares of the details of the sales classified so
\* far that reference it; a sale adds a row to the sell orders and changes
\* sold counters of lots it references, and nothing else.
C9_SoldIsSumOfSales ==
    /\ [](error \notin ClassificationErrors =>
            /\ \A i \in DOMAIN schwab_rsu_deposit_events :
                  schwab_rsu_deposit_events[i].val.sold =
                      SharesSold(schwab_sell_events, ReferencesRSU,
                                 schwab_rsu_deposit_events[i].key)
            /\ \A i \in DOMAIN schwab_espp_deposit_events :
                  schwab_espp_deposit_events[i].val.sold =
                      SharesSold(schwab_sell_events, ReferencesESPP,
                                 schwab_espp_deposit_events[i].key))
    /\ [][ (Classifies /\ Is(e', "Sale", "Share Sale")) =>
             /\ schwab_sell_events' =
                    Append(schwab_sell_events, SellOrderRow_from_schwab_json(e'))
             /\ SoldCleared(schwab_rsu_deposit_events') =
                    SoldCleared(schwab_rsu_deposit_events)
             /\ SoldCleared(schwab_espp_deposit_events') =
                    SoldCleared(schwab_espp_deposit_events)
             /\ \A i \in DOMAIN schwab_rsu_deposit_events :
                   schwab_rsu_deposit_events'[i].val.sold #
                       schwab_rsu_deposit_events[i].val.sold =>
                   \E j \in DOMAIN e'.TransactionDetails :
                       ReferencesRSU(e'.TransactionDetails[j],
                                     schwab_rsu_deposit_events[i].key)
             /\ \A i \in DOMAIN schwab_espp_deposit_events :
                   schwab_espp_deposit_events'[i].val.sold #
                       schwab_espp_deposit_events[i].val.sold =>
                   \E j \in DOMAIN e'.TransactionDetails :
                       ReferencesESPP(e'.TransactionDetails[j],
                                      schwab_espp_deposit_events[i].key)
             /\ UNCHANGED <<schwab_rsu_lapse_events, emitted, cash, late,
                            forex_transfer_as_exchange>> ]_vars

\* a sale of two details has credited an RSU lot that an earlier sale had
\* credited, and an ESPP lot
C9_Witness ==
    /\ pc = "classify"
    /\ Len(schwab_sell_events) = 2
    /\ Len(schwab_rsu_deposit_events) = 1
    /\ schwab_rsu_deposit_events[1].val.sold = 100
    /\ Len(schwab_espp_deposit_events) = 1
    /\ schwab_espp_deposit_events[1].val.sold = 1

(***************************************************************************)
(* Order of the phases                                                     *)
(***************************************************************************)
\* a lot as classification left it: the broker's values and the sold count
AsClassifiedRSU(row) == [BrokerRSU(row) EXCEPT !.sold = row.sold]

AsClassifiedESPP(row) == [BrokerESPP(row) EXCEPT !.sold = row.sold]

\* the ESPP lots emitted so far (the list without the placeholder row)
ESPPEmitted == SelectSeq(schwab_espp_events, LAMBDA row : row # ESPPRow_empty_dict)

Prefix(s, t) == Len(s) <= Len(t) /\ SubSeq(t, 1, Len(s)) = s

\* C10: no lot is reconciled before the whole log is classified, and no sale
\* is attributed after; a lot not yet reached by its loop holds the broker's
\* values and its final sold count; a lot the loop has passed was adjusted
\* once from those and emitted once, in the order of the store; the emitted
\* lots and their store entries never change again; every lot of a run that
\* reaches aggregation has been emitted.
C10_PhasesAreOrdered ==
    /\ [](/\ pc \in { "classify", "load" } =>
                schwab_rsu_events = <<>> /\ schwab_espp_events = <<>>
          /\ Len(schwab_rsu_events) <= Len(schwab_rsu_deposit_events)
          /\ Len(ESPPEmitted) <= Len(schwab_espp_deposit_events)
          /\ \A i \in DOMAIN schwab_rsu_deposit_events :
                LET row == schwab_rsu_deposit_events[i].val IN
                IF i <= Len(schwab_rsu_events)
                THEN /\ schwab_rsu_events[i] = row
                     /\ row = AdjustRSU(AsClassifiedRSU(row), LapseOf(row),
                                        SplitFactor(row.date, df_stock_splits))
                ELSE row = AsClassifiedRSU(row)
          /\ \A i \in DOMAIN schwab_espp_deposit_events :
                LET row == schwab_espp_deposit_events[i].val IN
                IF i <= Len(ESPPEmitted)
                THEN /\ ESPPEmitted[i] = row
                     /\ row = AdjustESPP(AsClassifiedESPP(row),
                                         SplitFactor(row.date, df_stock_splits))
                ELSE row = AsClassifiedESPP(row)
          /\ pc \in { "aggregate", "write", "done" } =>
                /\ Len(schwab_rsu_events) = Len(schwab_rsu_deposit_events)
                /\ Len(ESPPEmitted) = Len(schwab_espp_deposit_events))
    /\ [][ /\ Prefix(schwab_rsu_events, schwab_rsu_events')
           /\ Len(schwab_rsu_events') <= Len(schwab_rsu_events) + 1
           /\ Prefix(ESPPEmitted, ESPPEmitted')
           /\ Len(ESPPEmitted') <= Len(ESPPEmitted) + 1
           /\ \A i \in DOMAIN schwab_rsu_events :
                 schwab_rsu_deposit_events'[i] = schwab_rsu_deposit_events[i]
           /\ \A i \in DOMAIN ESPPEmitted :
                 schwab_espp_deposit_events'[i] = schwab_espp_deposit_events[i]
           /\ pc # "classify" =>
                 /\ n' = n /\ e' = e
                 /\ schwab_rsu_lapse_events' = schwab_rsu_lapse_events
                 /\ \A i \in DOMAIN schwab_rsu_deposit_events :
                        schwab_rsu_deposit_events'[i].val.sold =
                            schwab_rsu_deposit_events[i].val.sold
                 /\ \A i \in DOMAIN schwab_espp_deposit_events :
                        schwab_espp_deposit_events'[i].val.sold =
                            schwab_espp_deposit_events[i].val.sold ]_vars

\* a run has written its sheets with an RSU lot and an ESPP lot, both sold
\* in part and both adjusted by a factor other than 1
C10_Witness ==
    /\ pc = "done"
    /\ Len(schwab_rsu_events) = 1
    /\ Len(ESPPEmitted) = 1
    /\ schwab_rsu_events[1].sold = 60
    /\ schwab_rsu_events[1].net_quantity = float(25)
    /\ ESPPEmitted[1].sold = 1
    /\ ESPPEmitted[1].quantity = Div(float(2), float(4))

====
